---- MODULE Spec2Model ----
(***************************************************************************)
(* Model of the write path of gravity-transmitter-postgres                 *)
(* (package writer): producers calling ProcessData, the bounded command    *)
(* channel, the run loop feeding the buffered input, chunkHandler and the  *)
(* transactional retry loop of processData with the completion handler.    *)
(*                                                                         *)
(* A Command is identified by the number of the ProcessData call that      *)
(* produced it.  The database is the environment: every Beginx, NamedExec  *)
(* and Commit either succeeds or fails, chosen nondeterministically.       *)
(***************************************************************************)
EXTENDS Naturals, Sequences, FiniteSets, TLC

\* ------------------------------------------------------------------ bounds
\* Number of ProcessData calls issued over a run.
MaxCmds == 3
\* Number of concurrent producers (gRPC handlers calling ProcessData).
NumProducers == 2
\* Capacity of writer.commands (2048 in NewWriter), scaled down.
QueueCap == 2
\* opts.ChunkSize (100 in NewWriter), scaled down.
ChunkSize == 2
\* opts.ChunkCount (10000 in NewWriter), scaled down.
ChunkCount == 1
\* Number of database calls that fail over a run.
MaxFails == 2
\* Largest number of Fields of a Record.
MaxFields == 2
\* The count of attempts of a chunk is kept up to this number.
MaxAttempts == 3

CmdIds == 1..MaxCmds
Producers == 1..NumProducers

VARIABLES
    recs,        \* environment: recs[i] is the set of Records the i-th call may carry
    nextId,      \* number of the next ProcessData call
    calls,       \* history: calls[i] is the Record of the i-th ProcessData call
    ret,         \* history: ret[i] is what the i-th call returned ("none": not yet)
    pending,     \* pending[p]: the Command producer p is sending on writer.commands (0: none)
    commands,    \* writer.commands, the buffered channel of Commands
    buffer,      \* writer.buffer: the open chunk of the buffered input
    output,      \* writer.buffer: closed chunks waiting for opts.Handler
    dbCommands,  \* processData's argument: the chunk being written
    wpc,         \* position of the writer in chunkHandler/processData
    idx,         \* index of the range loops of processData over dbCommands
    openTx,      \* number of transactions of this pipeline that are open
    fails,       \* database calls that failed so far
    enq,         \* history: Commands in the order they entered writer.commands
    wasBlocked,  \* history: Commands whose send found writer.commands full
    handed,      \* history: chunks in the order chunkHandler received them
    attemptLog,  \* history: statements passed to NamedExec in the current attempt
    attempts,    \* history: number of Beginx calls made for dbCommands
    failed,      \* history: the calls ("exec", "commit") that failed for dbCommands
    committed,   \* history: Commands of the chunks whose Commit succeeded
    done         \* history: Commands in the order completionHandler was invoked

vars == <<recs, nextId, calls, ret, pending, commands, buffer, output, dbCommands, wpc, idx,
          openTx, fails, enq, wasBlocked, handed, attemptLog, attempts,
          failed, committed, done>>

producerVars == <<recs, nextId, calls, ret, pending, wasBlocked>>
batchVars == <<buffer, output>>
writerVars == <<dbCommands, wpc, idx, openTx, fails, handed, attemptLog,
                attempts, failed, committed, done>>

\* --------------------------------------------------------------- helpers
SeqToSet(s) == {s[i] : i \in 1..Len(s)}

IsPrefix(s, t) == Len(s) <= Len(t) /\ SubSeq(t, 1, Len(s)) = s

NoDup(s) == \A i, j \in 1..Len(s) : s[i] = s[j] => i = j

RECURSIVE Flatten(_)
Flatten(ss) == IF ss = <<>> THEN <<>> ELSE Head(ss) \o Flatten(Tail(ss))

Reverse(s) == [i \in 1..Len(s) |-> s[Len(s) + 1 - i]]

\* ------------------------------------------------------ record translator
\* A Record is [Method, Table, PrimaryKey, Fields], Fields a sequence of
\* [Name, Value].  A query string is kept as the sequence of its pieces,
\* each a piece of text, a double-quoted identifier or a named
\* placeholder; Render gives the string itself.
Txt(s) == [t |-> "text", s |-> s]
Ident(s) == [t |-> "ident", s |-> s]
Param(s) == [t |-> "param", s |-> s]

RenderPiece(x) ==
    CASE x.t = "text" -> x.s
      [] x.t = "ident" -> "\"" \o x.s \o "\""
      [] x.t = "param" -> ":" \o x.s

RECURSIVE Render(_)
Render(q) == IF q = <<>> THEN "" ELSE RenderPiece(Head(q)) \o Render(Tail(q))

\* strings.Join(parts, ","), every part a sequence of pieces.
RECURSIVE Join(_)
Join(parts) ==
    IF parts = <<>> THEN <<>>
    ELSE IF Len(parts) = 1 THEN Head(parts)
    ELSE Head(parts) \o <<Txt(",")>> \o Join(Tail(parts))

\* The named placeholders of a query string.
Placeholders(q) == {q[i].s : i \in {j \in 1..Len(q) : q[j].t = "param"}}

UpdateTemplate(table, updateStr, primaryCol) ==
    <<Txt("UPDATE "), Ident(table), Txt(" SET ")>> \o updateStr
      \o <<Txt(" WHERE "), Ident(primaryCol), Txt(" = "), Param("primary_val")>>

InsertTemplate(table, colsStr, valsStr) ==
    <<Txt("INSERT INTO "), Ident(table), Txt(" (")>> \o colsStr
      \o <<Txt(") VALUES (")>> \o valsStr \o <<Txt(")")>>

DeleteTemplate(table, primaryCol) ==
    <<Txt("DELETE FROM "), Ident(table), Txt(" WHERE "), Ident(primaryCol),
      Txt(" = "), Param("primary_val")>>

NoError == "nil"
NotFoundPrimaryKey == "Not found primary key"
NoValues == [b \in {} |-> 0]

\* fmt.Sprintf("val_%s", strconv.Itoa(n))
BindingName(n) == "val_" \o ToString(n)

NewRecordDef ==
    [HasPrimary |-> FALSE, PrimaryColumn |-> "", Values |-> NoValues,
     ColumnDefs |-> <<>>]

\* A mutant of ScanFields that numbers the bindings by the count of
\* non-primary fields seen so far.
RECURSIVE ScanFields_CountNonPrimary(_, _, _)
ScanFields_CountNonPrimary(record, n, recordDef) ==
    IF n >= Len(record.Fields) THEN recordDef
    ELSE LET field == record.Fields[n + 1]
             bindingName == BindingName(Len(recordDef.ColumnDefs))
         IN IF record.PrimaryKey = field.Name
              THEN ScanFields_CountNonPrimary(record, n + 1,
                     [recordDef EXCEPT
                        !.Values = ("primary_val" :> field.Value) @@ @,
                        !.HasPrimary = TRUE,
                        !.PrimaryColumn = field.Name])
              ELSE ScanFields_CountNonPrimary(record, n + 1,
                     [recordDef EXCEPT
                        !.Values = (bindingName :> field.Value) @@ @,
                        !.ColumnDefs = Append(@,
                            [ColumnName |-> field.Name,
                             Value |-> field.Name,
                             BindingName |-> bindingName])])

\* A mutant of ScanFields that gives every binding the same name.
RECURSIVE ScanFields_OneBinding(_, _, _)
ScanFields_OneBinding(record, n, recordDef) ==
    IF n >= Len(record.Fields) THEN recordDef
    ELSE LET field == record.Fields[n + 1]
             bindingName == BindingName(0)
         IN IF record.PrimaryKey = field.Name
              THEN ScanFields_OneBinding(record, n + 1,
                     [recordDef EXCEPT
                        !.Values = ("primary_val" :> field.Value) @@ @,
                        !.HasPrimary = TRUE,
                        !.PrimaryColumn = field.Name])
              ELSE ScanFields_OneBinding(record, n + 1,
                     [recordDef EXCEPT
                        !.Values = (bindingName :> field.Value) @@ @,
                        !.ColumnDefs = Append(@,
                            [ColumnName |-> field.Name,
                             Value |-> field.Name,
                             BindingName |-> bindingName])])

\* The "Scanning fields" loop of GetDefinition from the field of index n
\* (counted from 0 over all Fields) on.
RECURSIVE ScanFields(_, _, _)
ScanFields(record, n, recordDef) ==
    IF n >= Len(record.Fields) THEN recordDef
    ELSE LET field == record.Fields[n + 1]
             bindingName == BindingName(n)
         IN IF record.PrimaryKey = field.Name
              THEN ScanFields(record, n + 1,
                     [recordDef EXCEPT
                        !.Values = ("primary_val" :> field.Value) @@ @,
                        !.HasPrimary = TRUE,
                        !.PrimaryColumn = field.Name])
              ELSE ScanFields(record, n + 1,
                     [recordDef EXCEPT
                        !.Values = (bindingName :> field.Value) @@ @,
                        !.ColumnDefs = Append(@,
                            [ColumnName |-> field.Name,
                             Value |-> field.Name,
                             BindingName |-> bindingName])])

\* A mutant of GetDefinition without the missing-primary-key check.
GetDefinition_NoCheck(record) ==
    [def |-> ScanFields(record, 0, NewRecordDef), err |-> NoError]

\* GetDefinition returns the RecordDef, or the error when a PrimaryKey is
\* set and no field has that name.
GetDefinition(record) ==
    LET recordDef == ScanFields(record, 0, NewRecordDef)
    IN IF record.PrimaryKey # "" /\ ~recordDef.HasPrimary
         THEN [def |-> NewRecordDef, err |-> NotFoundPrimaryKey]
         ELSE [def |-> recordDef, err |-> NoError]

DBCommand(reference, record, queryStr, args) ==
    [Reference |-> reference, Record |-> record, QueryStr |-> queryStr,
     Args |-> args]

\* insert, update, DeleteRecord, UpdateRecord, InsertRecord and
\* ProcessData give [err, cmds]: the error returned and the Commands sent
\* on writer.commands.
insert(reference, record, table, recordDef) ==
    LET primaryCol == IF recordDef.HasPrimary
                        THEN <<<<Ident(recordDef.PrimaryColumn)>>>> ELSE <<>>
        primaryVal == IF recordDef.HasPrimary
                        THEN <<<<Param("primary_val")>>>> ELSE <<>>
        colNames == primaryCol \o
            [i \in 1..Len(recordDef.ColumnDefs) |->
                <<Ident(recordDef.ColumnDefs[i].ColumnName)>>]
        valNames == primaryVal \o
            [i \in 1..Len(recordDef.ColumnDefs) |->
                <<Param(recordDef.ColumnDefs[i].BindingName)>>]
        insertStr == InsertTemplate(table, Join(colNames), Join(valNames))
    IN [err |-> NoError,
        cmds |-> <<DBCommand(reference, record, insertStr, recordDef.Values)>>]

update(reference, record, table, recordDef) ==
    LET updates == [i \in 1..Len(recordDef.ColumnDefs) |->
                      <<Ident(recordDef.ColumnDefs[i].ColumnName), Txt(" = "),
                        Param(recordDef.ColumnDefs[i].BindingName)>>]
        sqlStr == UpdateTemplate(table, Join(updates), recordDef.PrimaryColumn)
    IN [err |-> NoError,
        cmds |-> <<DBCommand(reference, record, sqlStr, recordDef.Values)>>]

InsertRecord(reference, record) ==
    LET got == GetDefinition(record)
    IN IF got.err # NoError THEN [err |-> got.err, cmds |-> <<>>]
       ELSE insert(reference, record, record.Table, got.def)

UpdateRecord(reference, record) ==
    LET got == GetDefinition(record)
    IN IF got.err # NoError THEN [err |-> got.err, cmds |-> <<>>]
       ELSE IF ~got.def.HasPrimary THEN [err |-> NoError, cmds |-> <<>>]
       ELSE update(reference, record, record.Table, got.def)

DeleteRecord(reference, record) ==
    IF record.PrimaryKey = "" THEN [err |-> NoError, cmds |-> <<>>]
    ELSE LET matches == {i \in 1..Len(record.Fields) :
                            record.Fields[i].Name = record.PrimaryKey}
         IN IF matches = {} THEN [err |-> NoError, cmds |-> <<>>]
            ELSE LET field == record.Fields[CHOOSE i \in matches :
                                               \A j \in matches : i <= j]
                 IN [err |-> NoError,
                     cmds |-> <<DBCommand(reference, record,
                                  DeleteTemplate(record.Table, field.Name),
                                  "primary_val" :> field.Value)>>]

Translate(reference, record) ==
    CASE record.Method = "DELETE" -> DeleteRecord(reference, record)
      [] record.Method = "UPDATE" -> UpdateRecord(reference, record)
      [] record.Method = "INSERT" -> InsertRecord(reference, record)
      [] OTHER -> [err |-> NoError, cmds |-> <<>>]

\* The Records the producers may send.
Methods == {"INSERT", "UPDATE", "DELETE", "OTHER"}
FieldNames == {"", "id", "name"}
PrimaryKeys == {"", "id"}
FieldValue(i) == 6 + i

MakeRecord(method, primaryKey, names) ==
    [Method |-> method, Table |-> "users", PrimaryKey |-> primaryKey,
     Fields |-> [i \in 1..Len(names) |->
                   [Name |-> names[i], Value |-> FieldValue(i)]]]

AllRecords ==
    {MakeRecord(m, k, names) :
        m \in Methods, k \in PrimaryKeys,
        names \in UNION {[1..n -> FieldNames] : n \in 0..MaxFields}}

\* The process is alive until an unrecovered panic ends it.
Alive == wpc # "crashed"

\* Records sent through the pipeline: an INSERT that translates to a valid
\* statement, an UPDATE whose only field is the primary key, and an UPDATE
\* whose primary key is missing.
ValidRecord == MakeRecord("INSERT", "id", <<"id", "name">>)
RejectedRecord == MakeRecord("UPDATE", "id", <<"id">>)
FailingRecord == MakeRecord("UPDATE", "id", <<"name">>)

\* The state after NewWriter and Init, for producers whose i-th call
\* carries one of the Records rs[i].
Start(rs) ==
    /\ recs = rs
    /\ nextId = 1
    /\ calls = <<>>
    /\ ret = <<>>
    /\ pending = [p \in Producers |-> 0]
    /\ commands = <<>>
    /\ buffer = <<>>
    /\ output = <<>>
    /\ dbCommands = <<>>
    /\ wpc = "idle"
    /\ idx = 1
    /\ openTx = 0
    /\ fails = 0
    /\ enq = <<>>
    /\ wasBlocked = {}
    /\ handed = <<>>
    /\ attemptLog = <<>>
    /\ attempts = 0
    /\ failed = {}
    /\ committed = <<>>
    /\ done = <<>>

\* Every call carries a valid Record.
Init == Start([i \in 1..MaxCmds |-> {ValidRecord}])

\* The second call carries a Record whose statement the database rejects,
\* or one whose translation fails; the others carry a valid Record.
HeadOfLineInit ==
    Start([i \in 1..MaxCmds |->
             IF i = 2 THEN {RejectedRecord, FailingRecord}
                      ELSE {ValidRecord}])

\* One call with any Record.
TranslatorInit == Start(<<AllRecords>>)

\* The DBCommand that the i-th ProcessData call sent.
CommandOf(i) == Translate(i, calls[i]).cmds[1]

\* PostgreSQL rejects a statement with an empty SET list, an empty column
\* list or a zero-length identifier as a syntax error, on every attempt.
SyntaxError(q) ==
    \/ \E i \in 1..Len(q) : q[i] = Ident("")
    \/ \E i \in 1..(Len(q) - 1) :
         \/ q[i] = Txt(" SET ") /\ q[i + 1] = Txt(" WHERE ")
         \/ q[i] = Txt(" (") /\ q[i + 1] = Txt(") VALUES (")

Rejected(i) == SyntaxError(CommandOf(i).QueryStr)

\* attempts counts the Beginx calls of the chunk up to MaxAttempts.
CountAttempt ==
    attempts' = IF attempts < MaxAttempts THEN attempts + 1 ELSE attempts

\* ------------------------------------------------------------- producers
\* A producer calls ProcessData with a Record: the Record is translated;
\* with a Command to send the call reaches the channel send
\* `writer.commands <- &DBCommand{...}`, otherwise it returns at once.
ProcessData(p) ==
    /\ Alive
    /\ pending[p] = 0
    /\ nextId <= Len(recs)
    /\ \E record \in recs[nextId] :
         LET res == Translate(nextId, record)
         IN /\ calls' = Append(calls, record)
            /\ IF res.cmds = <<>>
                 THEN /\ ret' = Append(ret, res.err)
                      /\ pending' = pending
                      /\ wasBlocked' = wasBlocked
                 ELSE /\ ret' = Append(ret, "none")
                      /\ pending' = [pending EXCEPT ![p] = nextId]
                      /\ wasBlocked' = IF Len(commands) >= QueueCap
                                         THEN wasBlocked \cup {nextId}
                                         ELSE wasBlocked
    /\ nextId' = nextId + 1
    /\ UNCHANGED <<recs, commands, enq, batchVars, writerVars>>

\* A mutant of EnqueueCommand whose send does not wait for room.
EnqueueCommand_NoBlock(p) ==
    /\ Alive
    /\ pending[p] # 0
    /\ commands' = Append(commands, pending[p])
    /\ enq' = Append(enq, pending[p])
    /\ pending' = [pending EXCEPT ![p] = 0]
    /\ ret' = [ret EXCEPT ![pending[p]] = NoError]
    /\ UNCHANGED <<recs, nextId, calls, wasBlocked, batchVars,
                   writerVars>>

\* A mutant of EnqueueCommand whose call reports an earlier database
\* failure to its caller.
EnqueueCommand_ReportFailure(p) ==
    /\ Alive
    /\ pending[p] # 0
    /\ Len(commands) < QueueCap
    /\ commands' = Append(commands, pending[p])
    /\ enq' = Append(enq, pending[p])
    /\ pending' = [pending EXCEPT ![p] = 0]
    /\ ret' = [ret EXCEPT ![pending[p]] =
                 IF fails > 0 THEN "database error" ELSE NoError]
    /\ UNCHANGED <<recs, nextId, calls, wasBlocked, batchVars,
                   writerVars>>

\* The send on writer.commands completes once the channel has room, and
\* the call returns nil.
EnqueueCommand(p) ==
    /\ Alive
    /\ pending[p] # 0
    /\ Len(commands) < QueueCap
    /\ commands' = Append(commands, pending[p])
    /\ enq' = Append(enq, pending[p])
    /\ pending' = [pending EXCEPT ![p] = 0]
    /\ ret' = [ret EXCEPT ![pending[p]] = NoError]
    /\ UNCHANGED <<recs, nextId, calls, wasBlocked, batchVars,
                   writerVars>>

\* ------------------------------------------------- run loop and batching
\* One iteration of run: receive a Command from writer.commands and Push
\* it to the buffered input, which adds it to the open chunk and closes
\* the chunk when it holds ChunkSize Commands.  A closed chunk that finds
\* no room among the waiting chunks stays in the buffer until Flush.
run ==
    /\ Alive
    /\ commands # <<>>
    /\ Len(buffer) < ChunkSize
    /\ commands' = Tail(commands)
    /\ LET chunk == Append(buffer, Head(commands))
       IN IF Len(chunk) >= ChunkSize /\ Len(output) < ChunkCount
            THEN /\ output' = Append(output, chunk)
                 /\ buffer' = <<>>
            ELSE /\ buffer' = chunk
                 /\ output' = output
    /\ UNCHANGED <<enq, producerVars, writerVars>>

\* A mutant of Flush without the timeout: only a full chunk is closed.
Flush_OnlyFull ==
    /\ Alive
    /\ Len(buffer) >= ChunkSize
    /\ Len(output) < ChunkCount
    /\ output' = Append(output, buffer)
    /\ buffer' = <<>>
    /\ UNCHANGED <<commands, enq, producerVars, writerVars>>

\* The open chunk is closed because opts.Timeout elapsed since its first
\* Command joined it, or because a full chunk found room at last.
Flush ==
    /\ Alive
    /\ buffer # <<>>
    /\ Len(output) < ChunkCount
    /\ output' = Append(output, buffer)
    /\ buffer' = <<>>
    /\ UNCHANGED <<commands, enq, producerVars, writerVars>>

\* ------------------------------------------------------------- the writer
\* A mutant of chunkHandler that copies the chunk back to front.
chunkHandler_Reversed ==
    /\ wpc = "idle"
    /\ output # <<>>
    /\ dbCommands' = Reverse(Head(output))
    /\ output' = Tail(output)
    /\ handed' = Append(handed, Reverse(Head(output)))
    /\ wpc' = "begin"
    /\ idx' = 1
    /\ attempts' = 0
    /\ failed' = {}
    /\ attemptLog' = <<>>
    /\ UNCHANGED <<commands, buffer, enq, producerVars, openTx, fails,
                   committed, done>>

\* chunkHandler receives the next closed chunk, copies its Commands in
\* order into dbCommands and calls processData.
chunkHandler ==
    /\ wpc = "idle"
    /\ output # <<>>
    /\ dbCommands' = Head(output)
    /\ output' = Tail(output)
    /\ handed' = Append(handed, Head(output))
    /\ wpc' = "begin"
    /\ idx' = 1
    /\ attempts' = 0
    /\ failed' = {}
    /\ attemptLog' = <<>>
    /\ UNCHANGED <<commands, buffer, enq, producerVars, openTx, fails,
                   committed, done>>

\* A mutant of BeginOk that resumes the chunk at the Command that failed.
BeginOk_Resume ==
    /\ wpc = "begin"
    /\ openTx' = openTx + 1
    /\ CountAttempt
    /\ attemptLog' = <<>>
    /\ wpc' = IF idx > Len(dbCommands) THEN "commit" ELSE "exec"
    /\ UNCHANGED <<failed, commands, enq, producerVars, batchVars, dbCommands, idx,
                   fails, handed, committed, done>>

\* writer.db.Beginx() succeeds: a transaction is open and the range loop
\* over dbCommands starts at its first Command.
BeginOk ==
    /\ wpc = "begin"
    /\ openTx' = openTx + 1
    /\ CountAttempt
    /\ attemptLog' = <<>>
    /\ idx' = 1
    /\ wpc' = IF Len(dbCommands) = 0 THEN "commit" ELSE "exec"
    /\ UNCHANGED <<failed, commands, enq, producerVars, batchVars, dbCommands,
                   fails, handed, committed, done>>

\* writer.db.Beginx() fails and returns a nil transaction; the error
\* branch calls tx.Rollback() on it, which dereferences nil: the panic is
\* not recovered and ends the process, with everything it held in memory.
BeginFail ==
    /\ wpc = "begin"
    /\ fails < MaxFails
    /\ fails' = fails + 1
    /\ CountAttempt
    /\ wpc' = "crashed"
    /\ commands' = <<>>
    /\ buffer' = <<>>
    /\ output' = <<>>
    /\ dbCommands' = <<>>
    /\ attemptLog' = <<>>
    /\ idx' = 1
    /\ UNCHANGED <<failed, enq, producerVars, openTx, handed, committed, done>>

\* tx.NamedExec(cmd.QueryStr, cmd.Args) succeeds for the Command at idx.
ExecOk ==
    /\ wpc = "exec"
    /\ ~Rejected(dbCommands[idx])
    /\ attemptLog' = Append(attemptLog, dbCommands[idx])
    /\ idx' = idx + 1
    /\ wpc' = IF idx + 1 > Len(dbCommands) THEN "commit" ELSE "exec"
    /\ UNCHANGED <<failed, commands, enq, producerVars, batchVars, dbCommands,
                   openTx, fails, handed, attempts, committed, done>>

\* A mutant of ExecFail that leaves the failed transaction open.
ExecFail_NoRollback ==
    /\ wpc = "exec"
    /\ fails < MaxFails \/ Rejected(dbCommands[idx])
    /\ fails' = IF Rejected(dbCommands[idx]) THEN fails ELSE fails + 1
    /\ failed' = failed \cup {"exec"}
    /\ attemptLog' = Append(attemptLog, dbCommands[idx])
    /\ wpc' = "wait"
    /\ UNCHANGED <<commands, enq, producerVars, batchVars, dbCommands, idx,
                   openTx, handed, attempts, committed, done>>

\* A mutant of ExecFail that skips the failed Command and goes on with
\* the rest of the chunk.
ExecFail_Skip ==
    /\ wpc = "exec"
    /\ fails < MaxFails \/ Rejected(dbCommands[idx])
    /\ fails' = IF Rejected(dbCommands[idx]) THEN fails ELSE fails + 1
    /\ failed' = failed \cup {"exec"}
    /\ attemptLog' = Append(attemptLog, dbCommands[idx])
    /\ idx' = idx + 1
    /\ wpc' = IF idx + 1 > Len(dbCommands) THEN "commit" ELSE "exec"
    /\ UNCHANGED <<commands, enq, producerVars, batchVars, dbCommands,
                   openTx, handed, attempts, committed, done>>

\* tx.NamedExec fails for the Command at idx: the error is logged, the
\* transaction is rolled back and the writer sleeps for the retry delay.
ExecFail ==
    /\ wpc = "exec"
    /\ fails < MaxFails \/ Rejected(dbCommands[idx])
    /\ fails' = IF Rejected(dbCommands[idx]) THEN fails ELSE fails + 1
    /\ failed' = failed \cup {"exec"}
    /\ attemptLog' = Append(attemptLog, dbCommands[idx])
    /\ openTx' = openTx - 1
    /\ wpc' = "wait"
    /\ UNCHANGED <<commands, enq, producerVars, batchVars, dbCommands, idx,
                   handed, attempts, committed, done>>

\* tx.Commit() succeeds: the loop is left and the completion loop starts.
CommitOk ==
    /\ wpc = "commit"
    /\ openTx' = openTx - 1
    /\ committed' = committed \o dbCommands
    /\ idx' = 1
    /\ IF Len(dbCommands) = 0
         THEN wpc' = "idle"
         ELSE wpc' = "complete"
    /\ UNCHANGED <<failed, commands, enq, producerVars, batchVars, dbCommands,
                   fails, handed, attemptLog, attempts, done>>

\* A mutant of CommitFail that falls through to the completion loop.
CommitFail_Complete ==
    /\ wpc = "commit"
    /\ fails < MaxFails
    /\ fails' = fails + 1
    /\ failed' = failed \cup {"commit"}
    /\ openTx' = openTx - 1
    /\ idx' = 1
    /\ wpc' = "complete"
    /\ UNCHANGED <<commands, enq, producerVars, batchVars, dbCommands,
                   handed, attemptLog, attempts, committed, done>>

\* A mutant of CommitFail that only calls Commit again after the delay.
CommitFail_CommitAgain ==
    /\ wpc = "commit"
    /\ fails < MaxFails
    /\ fails' = fails + 1
    /\ failed' = failed \cup {"commit"}
    /\ openTx' = openTx - 1
    /\ wpc' = "commit"
    /\ UNCHANGED <<commands, enq, producerVars, batchVars, dbCommands, idx,
                   handed, attemptLog, attempts, committed, done>>

\* tx.Commit() fails: the error is logged, tx.Rollback() is called and the
\* writer sleeps for the retry delay before `continue`.
CommitFail ==
    /\ wpc = "commit"
    /\ fails < MaxFails
    /\ fails' = fails + 1
    /\ failed' = failed \cup {"commit"}
    /\ openTx' = openTx - 1
    /\ wpc' = "wait"
    /\ UNCHANGED <<commands, enq, producerVars, batchVars, dbCommands, idx,
                   handed, attemptLog, attempts, committed, done>>

\* <-time.After(time.Second * 5) returns: `goto LOOP` or `continue` starts
\* the next attempt at Beginx.
RetryAfterDelay ==
    /\ wpc = "wait"
    /\ wpc' = "begin"
    /\ UNCHANGED <<failed, commands, enq, producerVars, batchVars, dbCommands, idx,
                   openTx, fails, handed, attemptLog, attempts, committed,
                   done>>

\* A mutant of Complete that invokes the handler twice for a Command.
Complete_Twice ==
    /\ wpc = "complete"
    /\ done' = Append(Append(done, dbCommands[idx]), dbCommands[idx])
    /\ IF idx >= Len(dbCommands)
         THEN /\ wpc' = "idle"
              /\ dbCommands' = <<>>
              /\ idx' = 1
         ELSE /\ wpc' = "complete"
              /\ dbCommands' = dbCommands
              /\ idx' = idx + 1
    /\ UNCHANGED <<failed, commands, enq, producerVars, batchVars, openTx, fails,
                   handed, attemptLog, attempts, committed>>

\* One iteration of the completion loop: writer.completionHandler is
\* invoked for the Command at idx; after the last one processData and
\* chunkHandler return.
Complete ==
    /\ wpc = "complete"
    /\ done' = Append(done, dbCommands[idx])
    /\ IF idx >= Len(dbCommands)
         THEN /\ wpc' = "idle"
              /\ dbCommands' = <<>>
              /\ idx' = 1
         ELSE /\ wpc' = "complete"
              /\ dbCommands' = dbCommands
              /\ idx' = idx + 1
    /\ UNCHANGED <<failed, commands, enq, producerVars, batchVars, openTx, fails,
                   handed, attemptLog, attempts, committed>>

\* ------------------------------------------------------- specifications
Next ==
    \/ \E p \in Producers : ProcessData(p)
    \/ \E p \in Producers : EnqueueCommand(p)
    \/ run
    \/ Flush
    \/ chunkHandler
    \/ BeginOk
    \/ BeginFail
    \/ ExecOk
    \/ ExecFail
    \/ CommitOk
    \/ CommitFail
    \/ RetryAfterDelay
    \/ Complete

Spec == Init /\ [][Next]_vars

\* The same program given one call with any Record.
TranslatorSpec == TranslatorInit /\ [][Next]_vars

\* The same program given a Record that blocks or fails.
HeadOfLineSpec == HeadOfLineInit /\ [][Next]_vars

\* The goroutines are scheduled fairly, every timer fires, and the
\* database answers every call.
FairSpec ==
    /\ Spec
    /\ \A p \in Producers : WF_vars(EnqueueCommand(p))
    /\ WF_vars(run)
    /\ WF_vars(Flush)
    /\ WF_vars(chunkHandler)
    /\ WF_vars(BeginOk \/ BeginFail)
    /\ WF_vars(ExecOk \/ ExecFail)
    /\ WF_vars(CommitOk \/ CommitFail)
    /\ WF_vars(RetryAfterDelay)
    /\ WF_vars(Complete)

TypeOK ==
    /\ nextId \in 1..(Len(recs) + 1)
    /\ pending \in [Producers -> 0..Len(recs)]
    /\ Len(commands) <= QueueCap
    /\ Len(buffer) <= ChunkSize
    /\ Len(output) <= ChunkCount
    /\ wpc \in {"idle", "begin", "exec", "commit", "wait", "complete", "crashed"}
    /\ idx \in 1..(Len(recs) + 1)
    /\ fails \in 0..MaxFails

\* ---------------------------------------------------------------- claims
Count(c, s) == Cardinality({i \in 1..Len(s) : s[i] = c})

\* The writer is inside an attempt of processData's retry loop.
Writing == wpc \in {"begin", "exec", "commit", "wait"}

\* C1: when a statement fails inside a chunk's transaction, processData
\* rolls the transaction back, waits, and starts a new attempt with the
\* same chunk that opens a fresh transaction and executes the Commands
\* from the first one in chunk order; every attempt executes a prefix of
\* the chunk in order, reaches Commit only after the whole chunk, and the
\* retry after the delay is always possible (no limit on attempts).
C1_RetryWholeChunk ==
    /\ [](Writing => IsPrefix(attemptLog, dbCommands))
    /\ [](wpc = "commit" => attemptLog = dbCommands)
    /\ [](wpc = "wait" => ENABLED RetryAfterDelay)
    /\ [][/\ (wpc = "exec" /\ fails' # fails) =>
               (wpc' = "wait" /\ openTx' = 0 /\ dbCommands' = dbCommands)
          /\ (wpc = "wait" /\ wpc' # "wait") =>
               (wpc' = "begin" /\ dbCommands' = dbCommands)
          /\ (wpc = "begin" /\ wpc' = "exec") =>
               (/\ openTx' = 1
                /\ idx' = 1
                /\ attemptLog' = <<>>
                /\ dbCommands' = dbCommands)]_vars

\* A second attempt, started after a statement failure, has executed the
\* whole chunk of two or more Commands again.
C1_Witness ==
    /\ wpc = "commit"
    /\ failed = {"exec"}
    /\ attempts >= 2
    /\ Len(dbCommands) >= 2
    /\ attemptLog = dbCommands

\* C2: the completion handler has been invoked only for Commands of
\* chunks whose transaction committed; while a chunk is being attempted
\* (statement failure, commit failure, rollback, retry wait included)
\* none of its Commands has been completed.
C2_CompletionOnlyAfterCommit ==
    /\ SeqToSet(done) \subseteq SeqToSet(committed)
    /\ Writing => SeqToSet(dbCommands) \cap SeqToSet(done) = {}

\* The handler runs for a chunk that committed after failed attempts.
C2_Witness ==
    /\ wpc = "complete"
    /\ failed = {"exec", "commit"}
    /\ idx = 2
    /\ dbCommands[1] \in SeqToSet(done)

\* C3: the completion handler is invoked once per Command of a committed
\* chunk, in chunk order, chunk after chunk, and never twice for a
\* Command; when processData returns, every committed Command has been
\* completed.
C3_CompletedOnceInOrder ==
    /\ NoDup(done)
    /\ IsPrefix(done, committed)
    /\ wpc = "complete" =>
         done = SubSeq(committed, 1, Len(committed) - Len(dbCommands) + idx - 1)
    /\ wpc \in {"idle", "begin", "exec", "wait"} => done = committed

\* Two chunks have been completed, after at least one failed attempt.
C3_Witness ==
    /\ wpc = "idle"
    /\ Len(handed) >= 2
    /\ Len(done) >= 3
    /\ done = committed
    /\ fails >= 1

\* C4: a failed Beginx makes the writer wait for the retry delay and try
\* the same chunk again: the writer does not stop, the chunk is kept and
\* no completion handler runs for it.
C4_BeginFailureRetries ==
    [][(wpc = "begin" /\ fails' # fails) =>
         (wpc' = "wait" /\ dbCommands' = dbCommands /\ done' = done)]_vars

\* C5: a failed Commit is handled like a failed statement: the
\* transaction is closed, nothing is committed or completed, the writer
\* waits and the same chunk is executed again in a new transaction.
C5_CommitFailureRetriesChunk ==
    /\ [](wpc = "commit" => (openTx = 1 /\ attemptLog = dbCommands))
    /\ [][(wpc = "commit" /\ fails' # fails) =>
            (/\ wpc' = "wait"
             /\ openTx' = 0
             /\ dbCommands' = dbCommands
             /\ committed' = committed
             /\ done' = done)]_vars

\* After a failed Commit the chunk has been executed again and is at
\* Commit in a new transaction.
C5_Witness ==
    /\ wpc = "commit"
    /\ "commit" \in failed
    /\ attempts >= 2
    /\ openTx = 1
    /\ attemptLog = dbCommands
    /\ Len(dbCommands) >= 2

\* C6: Commands are chunked, executed and completed in the order they
\* entered the command queue: the chunks handed to the writer, taken
\* together, follow the enqueue order (so an earlier Command is in the
\* same or an earlier chunk), every attempt executes the chunk's
\* statements in that order, and the completion handler calls follow it.
C6_EnqueueOrderPreserved ==
    /\ IsPrefix(Flatten(handed), enq)
    /\ Writing => /\ IsPrefix(dbCommands, SubSeq(enq, Len(committed) + 1, Len(enq)))
                  /\ IsPrefix(attemptLog, dbCommands)
    /\ IsPrefix(committed, enq)
    /\ IsPrefix(done, enq)

\* Two chunks were completed after the second ProcessData call was
\* enqueued ahead of the first one.
C6_Witness ==
    /\ Len(handed) >= 2
    /\ Len(done) >= 3
    /\ enq[1] = 2
    /\ enq[2] = 1

\* C7: at most one transaction of the pipeline is open at any time, and
\* a transaction is begun for a chunk only when none is open (every
\* failed attempt was rolled back) and every earlier chunk has committed.
C7_OneTransactionAtATime ==
    /\ openTx <= 1
    /\ wpc = "begin" => openTx = 0
    /\ Writing => /\ handed # <<>>
                  /\ committed = Flatten(SubSeq(handed, 1, Len(handed) - 1))

\* The second chunk has a transaction open on its second attempt.
C7_Witness ==
    /\ Len(handed) >= 2
    /\ attempts >= 2
    /\ wpc = "exec"
    /\ openTx = 1

\* The Commands of chunk c that the completion loop has not reached yet.
Remaining ==
    IF wpc = "complete" THEN SubSeq(dbCommands, idx, Len(dbCommands))
    ELSE dbCommands

\* C8: every Command that entered the command queue is in exactly one
\* place: the command queue, the open chunk, a chunk closed for the
\* writer (waiting or being written), or the completed Commands; and it
\* is in at most one chunk.
C8_NoCommandLostOrDuplicated ==
    \A c \in SeqToSet(enq) :
        /\ Count(c, commands) + Count(c, buffer) + Count(c, Flatten(output))
             + Count(c, Remaining) + Count(c, done) = 1
        /\ Count(c, Flatten(handed)) <= 1

\* C9: under fair scheduling and a database that stops failing, every
\* Command that entered the command queue is eventually committed and
\* its completion handler is eventually invoked.
C9_EventuallyCompleted ==
    \A c \in CmdIds :
        (c \in SeqToSet(enq)) ~>
            (c \in SeqToSet(committed) /\ c \in SeqToSet(done))

\* C10: the command queue never holds more than its capacity, and a
\* ProcessData call that has a Command to send keeps it until the queue
\* has room and then appends exactly that Command; it never returns
\* without it or discards it.
C10_BoundedQueueBackpressure ==
    /\ [](Len(commands) <= QueueCap)
    /\ [][\A p \in Producers :
            (pending[p] # 0 /\ pending'[p] # pending[p]) =>
                (/\ Len(commands) < QueueCap
                 /\ pending'[p] = 0
                 /\ commands' = Append(commands, pending[p]))]_vars

\* A Command whose send found the queue full is in the queue, which is
\* full again.
C10_Witness ==
    /\ Len(commands) = QueueCap
    /\ commands[Len(commands)] \in wasBlocked

\* C11: the batcher has one open chunk, which is closed when it holds
\* ChunkSize Commands or when the flush timeout elapsed since its first
\* Command, whichever comes first: every closed chunk is non-empty and
\* holds at most ChunkSize Commands, a chunk that reached ChunkSize stays
\* open only while no closed chunk can be accepted, and a non-empty open
\* chunk can always be flushed by the timeout without a further Command.
C11_ChunkClosedBySizeOrTimeout ==
    /\ [](/\ Len(buffer) <= ChunkSize
          /\ \A i \in 1..Len(output) :
               output[i] # <<>> /\ Len(output[i]) <= ChunkSize
          /\ \A i \in 1..Len(handed) :
               handed[i] # <<>> /\ Len(handed[i]) <= ChunkSize
          /\ (Alive /\ buffer # <<>> /\ Len(output) < ChunkCount)
               => ENABLED Flush)
    /\ [][(buffer' # buffer /\ Len(buffer') = ChunkSize)
            => Len(output) = ChunkCount]_vars

\* One chunk was closed by its size and a later one, shorter, by the
\* timeout.
C11_Witness ==
    \E i, j \in 1..Len(handed) :
        /\ i < j
        /\ Len(handed[i]) = ChunkSize
        /\ Len(handed[j]) < ChunkSize

\* ------------------------------------------------ claims on translation
\* The positions of the fields of a Record whose name is, or is not, its
\* PrimaryKey.
PrimaryPositions(record) ==
    {i \in 1..Len(record.Fields) : record.Fields[i].Name = record.PrimaryKey}

RECURSIVE NonPrimaryFrom(_, _)
NonPrimaryFrom(record, i) ==
    IF i > Len(record.Fields) THEN <<>>
    ELSE IF i \in PrimaryPositions(record) THEN NonPrimaryFrom(record, i + 1)
    ELSE <<i>> \o NonPrimaryFrom(record, i + 1)

NonPrimaryPositions(record) == NonPrimaryFrom(record, 1)

Resolved(record) == PrimaryPositions(record) # {}

Max(S) == CHOOSE x \in S : \A y \in S : y <= x

\* What GetDefinition has in common in C12 and in its amendment: the
\* primary field is bound under primary_val and kept out of ColumnDefs.
PrimaryBound(record, def) ==
    /\ def.HasPrimary
    /\ def.PrimaryColumn = record.PrimaryKey
    /\ def.Values["primary_val"] =
         record.Fields[Max(PrimaryPositions(record))].Value
    /\ Len(def.ColumnDefs) = Len(NonPrimaryPositions(record))
    /\ \A k \in 1..Len(def.ColumnDefs) :
         def.ColumnDefs[k].ColumnName =
           record.Fields[NonPrimaryPositions(record)[k]].Name

ScenarioInsert == MakeRecord("INSERT", "id", <<"id", "name">>)

\* C12 as claimed: with a resolved PrimaryKey, the k-th non-primary field
\* (k from 0) gets the binding val_k, wherever the primary field sits, and
\* the INSERT of Fields [id, name] with PrimaryKey id uses :val_0.
C12_BindingCountsNonPrimary ==
    \A i \in 1..Len(calls) :
        Resolved(calls[i]) =>
            LET def == GetDefinition(calls[i]).def
            IN /\ PrimaryBound(calls[i], def)
               /\ \A k \in 1..Len(def.ColumnDefs) :
                    def.ColumnDefs[k].BindingName = BindingName(k - 1)
               /\ calls[i] = ScenarioInsert =>
                    Render(Translate(i, calls[i]).cmds[1].QueryStr) =
                      "INSERT INTO \"users\" (\"id\",\"name\") VALUES (:primary_val,:val_0)"

\* C12 amended: with a resolved PrimaryKey, the primary field is bound
\* under primary_val and kept out of ColumnDefs, and a non-primary field
\* gets the binding val_n, n its position from 0 among all the Fields of
\* the Record, the primary field counted; the INSERT of Fields [id, name]
\* with PrimaryKey id binds name as val_1 and uses :val_1.
C12_BindingCountsAllFields ==
    \A i \in 1..Len(calls) :
        Resolved(calls[i]) =>
            LET def == GetDefinition(calls[i]).def
                pos == NonPrimaryPositions(calls[i])
            IN /\ PrimaryBound(calls[i], def)
               /\ \A k \in 1..Len(def.ColumnDefs) :
                    /\ def.ColumnDefs[k].BindingName = BindingName(pos[k] - 1)
                    /\ def.Values[BindingName(pos[k] - 1)] =
                         calls[i].Fields[pos[k]].Value
               /\ DOMAIN def.Values =
                    {"primary_val"} \cup
                    {BindingName(pos[k] - 1) : k \in 1..Len(pos)}
               /\ calls[i] = ScenarioInsert =>
                    /\ DOMAIN def.Values = {"primary_val", "val_1"}
                    /\ Render(Translate(i, calls[i]).cmds[1].QueryStr) =
                         "INSERT INTO \"users\" (\"id\",\"name\") VALUES (:primary_val,:val_1)"

\* The INSERT of Fields [id, name] with PrimaryKey id was translated and
\* its Command entered the queue.
C12_Witness ==
    /\ calls = <<ScenarioInsert>>
    /\ enq = <<1>>

\* The Record names a primary key that none of its fields has.
MissingPrimaryKey(record) == record.PrimaryKey # "" /\ ~Resolved(record)

\* The i-th call has sent, or is sending, a Command.
Sent(i) == i \in SeqToSet(enq) \/ \E p \in Producers : pending[p] = i

\* C13 as claimed: for an INSERT, UPDATE or DELETE Record, ProcessData
\* returns the missing-primary-key error exactly when PrimaryKey is set
\* and no field has that name, and then sends no Command.
C13_ErrorIffMissingPrimaryKey ==
    \A i \in 1..Len(calls) :
        calls[i].Method \in {"INSERT", "UPDATE", "DELETE"} =>
            /\ MissingPrimaryKey(calls[i]) => ret[i] = NotFoundPrimaryKey
            /\ ~MissingPrimaryKey(calls[i]) => ret[i] \in {"none", NoError}
            /\ ret[i] = NotFoundPrimaryKey => ~Sent(i)

\* C13 amended: for an INSERT or UPDATE Record, ProcessData returns the
\* missing-primary-key error exactly when PrimaryKey is set and no field
\* has that name; for a DELETE Record it never returns an error; a call
\* that returns the error sends no Command.
C13_ErrorIffMissingPrimaryKeyInsertUpdate ==
    \A i \in 1..Len(calls) :
        /\ calls[i].Method \in {"INSERT", "UPDATE"} =>
             /\ MissingPrimaryKey(calls[i]) => ret[i] = NotFoundPrimaryKey
             /\ ~MissingPrimaryKey(calls[i]) => ret[i] \in {"none", NoError}
        /\ calls[i].Method = "DELETE" => ret[i] \in {"none", NoError}
        /\ ret[i] = NotFoundPrimaryKey => ~Sent(i)

\* An UPDATE whose PrimaryKey names no field returned the error, and a
\* DELETE of the same kind would have returned nil.
C13_Witness ==
    /\ calls = <<MakeRecord("UPDATE", "id", <<"name">>)>>
    /\ ret = <<NotFoundPrimaryKey>>
    /\ enq = <<>>
    /\ Translate(1, MakeRecord("DELETE", "id", <<"name">>)).err = NoError

\* C14: an UPDATE or DELETE Command is sent only for a Record whose
\* PrimaryKey is not empty and names one of its fields, and then once;
\* for an UPDATE or DELETE Record with an empty PrimaryKey ProcessData
\* sends nothing and returns no error.
C14_UpdateDeleteNeedPrimaryKey ==
    \A i \in 1..Len(calls) :
        calls[i].Method \in {"UPDATE", "DELETE"} =>
            /\ Sent(i) => /\ calls[i].PrimaryKey # ""
                          /\ Resolved(calls[i])
                          /\ Count(i, enq) <= 1
                          /\ Len(Translate(i, calls[i]).cmds) = 1
            /\ calls[i].PrimaryKey = "" => ret[i] = NoError /\ ~Sent(i)

\* The reply of Service.Send for the result err of ProcessData.
Send(err) ==
    IF err # NoError
      THEN [Success |-> FALSE, Reason |-> err]
      ELSE [Success |-> TRUE, Reason |-> ""]

\* The i-th ProcessData call has returned.
Returned(i) == ret[i] # "none"

\* The Record is one whose translation fails.
TranslationFails(record) ==
    record.Method \in {"INSERT", "UPDATE"} /\ MissingPrimaryKey(record)

\* C15: database failures are never surfaced to the producer.  The reply
\* of Send for every returned ProcessData call is the error reply exactly
\* when the Record's translation fails, and the reply of a call whose
\* Command was enqueued is success; the send can complete whenever the
\* channel has room, whatever the writer is doing; the result a call
\* returns is the result of the Record's translation; and a returned
\* result is never changed by anything later.
C15_DatabaseFailuresNotSurfaced ==
    /\ [](\A i \in 1..Len(ret) :
            /\ Returned(i) =>
                 Send(ret[i]) = IF TranslationFails(calls[i])
                                  THEN [Success |-> FALSE,
                                        Reason |-> NotFoundPrimaryKey]
                                  ELSE [Success |-> TRUE, Reason |-> ""]
            /\ i \in SeqToSet(enq) => Send(ret[i]).Success)
    /\ [](\A p \in Producers :
            (Alive /\ pending[p] # 0 /\ Len(commands) < QueueCap)
                => ENABLED EnqueueCommand(p))
    /\ [][\A i \in 1..Len(ret') :
            IF i <= Len(ret) /\ Returned(i)
              THEN ret'[i] = ret[i]
              ELSE ret'[i] # "none" =>
                     ret'[i] = Translate(i, calls'[i]).err]_vars

\* The first call returned success and its Command's chunk has failed at
\* a statement and at Commit without being committed; the second call
\* returned the missing-primary-key error.
C15_Witness ==
    /\ Len(ret) >= 2
    /\ Send(ret[1]).Success
    /\ Send(ret[2]) = [Success |-> FALSE, Reason |-> NotFoundPrimaryKey]
    /\ 1 \in SeqToSet(dbCommands)
    /\ failed = {"exec", "commit"}
    /\ wpc = "wait"
    /\ committed = <<>>

\* None of the Commands the writer holds is rejected by the database on
\* every attempt.
NoneRejected == \A k \in 1..Len(dbCommands) : ~Rejected(dbCommands[k])

\* The number of Commands waiting between the producers and the writer.
Queued == Len(commands) + Len(buffer) + Len(Flatten(output))

SetList(q) ==
    LET set == CHOOSE i \in 1..Len(q) : q[i] = Txt(" SET ")
        where == CHOOSE i \in 1..Len(q) : q[i] = Txt(" WHERE ")
    IN SubSeq(q, set + 1, where - 1)

\* C17: every UPDATE Command that entered the queue for a Record with a
\* resolved PrimaryKey has at least one `"col" = :binding` assignment in
\* its SET list.
C17_UpdateHasAssignment ==
    \A i \in SeqToSet(enq) :
        (calls[i].Method = "UPDATE" /\ calls[i].PrimaryKey # "") =>
            LET set == SetList(CommandOf(i).QueryStr)
            IN /\ Len(set) >= 3
               /\ set[1].t = "ident"
               /\ set[2] = Txt(" = ")
               /\ set[3].t = "param"

\* The identifiers after the table name, and the placeholders, of an
\* INSERT statement, in order.
RECURSIVE Pieces(_, _)
Pieces(q, kind) ==
    IF q = <<>> THEN <<>>
    ELSE IF Head(q).t = kind THEN <<Head(q).s>> \o Pieces(Tail(q), kind)
    ELSE Pieces(Tail(q), kind)

Columns(q) == Tail(Pieces(q, "ident"))

\* C18: for every Command that entered the queue, the placeholders of its
\* QueryStr are exactly the keys of its Args; in an INSERT there are as
\* many column names as placeholders, the i-th column and the i-th
\* placeholder belong to the same field (same name, and the value bound
\* is that field's), and the primary column comes first when there is one.
C18_PlaceholdersMatchArgs ==
    \A i \in SeqToSet(enq) :
        LET cmd == CommandOf(i)
            record == calls[i]
            cols == Columns(cmd.QueryStr)
            pars == Pieces(cmd.QueryStr, "param")
        IN /\ Placeholders(cmd.QueryStr) = DOMAIN cmd.Args
           /\ cmd.Record = record
           /\ cmd.Reference = i
           /\ record.Method = "INSERT" =>
                /\ Len(cols) = Len(pars)
                /\ Resolved(record) => pars[1] = "primary_val"
                /\ \A k \in 1..Len(pars) :
                     IF pars[k] = "primary_val"
                       THEN /\ k = 1
                            /\ cols[k] = record.PrimaryKey
                            /\ \E n \in PrimaryPositions(record) :
                                 cmd.Args[pars[k]] = record.Fields[n].Value
                       ELSE \E n \in 1..Len(record.Fields) :
                              /\ pars[k] = BindingName(n - 1)
                              /\ cols[k] = record.Fields[n].Name
                              /\ cmd.Args[pars[k]] = record.Fields[n].Value

\* An INSERT with a repeated field name entered the queue.
C18_Witness ==
    /\ calls = <<MakeRecord("INSERT", "", <<"name", "name">>)>>
    /\ enq = <<1>>

====
